---- MODULE Spec2Model ----
(***************************************************************************)
(* The /register, /login and /logout handlers of src/index.js and the      *)
(* "users" table of the record store they call.                            *)
(*                                                                         *)
(* Every handler is an async function: it runs without interruption from   *)
(* the arrival of the request up to its first await, and from the          *)
(* completion of one awaited store call up to the next await or the        *)
(* response.  One action models each such run.  Handlers of different      *)
(* requests interleave at the awaits; the store applies one call at a      *)
(* time.                                                                   *)
(*                                                                         *)
(* A nullable JavaScript value (data, error, user) is a sequence of at     *)
(* most one element: <<>> is null, <<v>> is the value v.  The message      *)
(* strings are those of the source without their leading check-mark sign.  *)
(***************************************************************************)
EXTENDS Integers, Sequences, FiniteSets, TLC

\* Number of requests the server receives in one behaviour.
MaxReqs == 2

\* A field that req.body does not carry (destructuring yields undefined).
Undefined == "<undefined>"

UsernameVals == {Undefined, "u"}
EmailVals == {Undefined, "", "a@x.com", "b@x.com"}
PasswordVals == {Undefined, "p", "q"}

Bodies == [username : UsernameVals, email : EmailVals, password : PasswordVals]

\* The rows the "users" table can hold for these values.
Rows ==
  [username : UsernameVals \ {Undefined}, email : EmailVals \ {Undefined, ""},
   password : PasswordVals \ {Undefined}, islogin : BOOLEAN]

\* The table when the server starts (the store outlives the process): empty,
\* or holding one user, logged in or not.
InitialTables ==
  {<<>>} \cup
  {<<u>> : u \in {v \in Rows : v.email = "a@x.com" /\ v.password = "p"}}

\* How the store ends a call: it applies it and answers, it answers with
\* {error}, or the awaited call rejects.
StoreOutcomes == {"ok", "error", "throw"}

\* error.message of an insert the store refuses.
StoreMessages ==
  {"duplicate key value violates unique constraint", "permission denied for table users"}

ReqIds == 1 .. MaxReqs

VARIABLES
  users,   \* the rows of the store's "users" table, in insertion order
  reqs     \* per request: its handler's position, locals and responses, and
           \* the history the properties read (alone, calls)

vars == <<users, reqs>>

NoBody == [username |-> Undefined, email |-> Undefined, password |-> Undefined]

IdleReq ==
  [kind |-> "none", body |-> NoBody, pc |-> "idle", alone |-> FALSE, user |-> <<>>,
   calls |-> <<>>, res |-> <<>>]

Init ==
  /\ users \in InitialTables
  /\ reqs = [r \in ReqIds |-> IdleReq]

(***************************************************************************)
(* JavaScript and Express helpers                                          *)
(***************************************************************************)

\* !v for a value that is undefined or a string.
Falsy(v) == v = Undefined \/ v = ""

\* Requests are numbered in the order they arrive.
Arrives(r) == IF r = 1 THEN TRUE ELSE reqs[r - 1].pc # "idle"

\* No handler is between its arrival and its response.
Quiet == \A o \in ReqIds : reqs[o].pc \in {"idle", "done"}

\* The request as the handler receives it.
Arrived(r, kind, body) ==
  [reqs[r] EXCEPT !.kind = kind, !.body = body, !.alone = Quiet]

\* A response sent without `return`, followed by the handler's next response.
SendTwice(q, reply) ==
  [q EXCEPT !.res = Append(Append(@, reply), reply), !.pc = "done"]

\* res.status(status).json(body), ending the handler's run.
Send(q, reply) == [q EXCEPT !.res = Append(@, reply), !.pc = "done"]

\* The completed store call as the request remembers it: its outcome, the
\* number of rows it inserted, matched or updated, and the reported message.
Call(op, out, rows, msg) == [op |-> op, out |-> out, rows |-> rows, msg |-> msg]

InternalError == [status |-> 500, body |-> [error |-> "Internal Server Error"]]

(***************************************************************************)
(* The record store                                                        *)
(***************************************************************************)

\* .eq("email", email)
Matching(t, email) == {i \in DOMAIN t : t[i].email = email}

\* An upsert on email: the new row replaces the rows of its email.
StoreUpsert(t, row) == Append(SelectSeq(t, LAMBDA u : u.email # row.email), row)

\* .insert([row])
StoreInsert(t, row) == Append(t, row)

\* An update that can set the flag but not clear it.
StoreUpdateSetOnly(t, email, v) ==
  [i \in DOMAIN t |->
     IF t[i].email = email THEN [t[i] EXCEPT !.islogin = @ \/ v] ELSE t[i]]

\* The update with its .eq("email", email) filter left out.
StoreUpdateAll(t, email, v) == [i \in DOMAIN t |-> [t[i] EXCEPT !.islogin = v]]

\* .update({ islogin: v }).eq("email", email)
StoreUpdate(t, email, v) ==
  [i \in DOMAIN t |-> IF t[i].email = email THEN [t[i] EXCEPT !.islogin = v] ELSE t[i]]

\* { data, error } of .insert([row]).select("*")
InsertResult(out, msg, row) ==
  IF out = "ok"
  THEN [data |-> <<row>>, error |-> <<>>]
  ELSE [data |-> <<>>, error |-> <<msg>>]

\* A lookup that takes the first matching row (.limit(1)) instead of
\* requiring exactly one.
FirstResult(t, email, out) ==
  LET m == Matching(t, email)
  IN  IF out = "ok" /\ m # {}
      THEN [data |-> <<t[CHOOSE i \in m : \A j \in m : i <= j]>>, error |-> <<>>]
      ELSE [data |-> <<>>, error |-> <<"select failed">>]

\* { data, error } of .select("*").eq("email", email).single(): the row when
\* exactly one matches, an error otherwise.
SingleResult(t, email, out) ==
  LET m == Matching(t, email)
  IN  IF out = "ok" /\ Cardinality(m) = 1
      THEN [data |-> <<t[CHOOSE i \in m : TRUE]>>, error |-> <<>>]
      ELSE [data |-> <<>>,
            error |-> <<IF out = "ok"
                        THEN "JSON object requested, multiple (or no) rows returned"
                        ELSE "select failed">>]

(***************************************************************************)
(* POST /register                                                          *)
(***************************************************************************)

\* The validation with the password test left out.
RegisterInvalidNoPassword(body) == Falsy(body.username) \/ Falsy(body.email)

RegisterInvalid(body) ==
  Falsy(body.username) \/ Falsy(body.email) \/ Falsy(body.password)

RegisterRequired ==
  [status |-> 400, body |-> [error |-> "Username, Email, and Password are required"]]

\* The inserted row with the flag set.
NewUserLoggedIn(body) ==
  [username |-> body.username, email |-> body.email, password |-> body.password,
   islogin |-> TRUE]

NewUser(body) ==
  [username |-> body.username, email |-> body.email, password |-> body.password,
   islogin |-> FALSE]

\* data?.[0] || null
FirstOrNull(data) == IF Len(data) > 0 THEN <<data[1]>> ELSE <<>>

\* A client that rejects on a reported error as well (throwOnError).
RegisterCaughtOrReported(out) == out \in {"throw", "error"}

RegisterCaught(out) == out = "throw"

\* The reply with a reported insert error passed on as a server error.
RegisterReplyErrorAs500(result) ==
  IF result.error # <<>>
  THEN [status |-> 500, body |-> [error |-> "Internal Server Error"]]
  ELSE [status |-> 200,
        body |-> [message |-> "User registered successfully!",
                  user |-> FirstOrNull(result.data)]]

RegisterReply(result) ==
  IF result.error # <<>>
  THEN [status |-> 400, body |-> [error |-> result.error[1]]]
  ELSE [status |-> 200,
        body |-> [message |-> "User registered successfully!",
                  user |-> FirstOrNull(result.data)]]

\* The request arrives; the handler validates and issues the insert.
Register(r, body) ==
  /\ reqs[r].pc = "idle"
  /\ Arrives(r)
  /\ LET q == Arrived(r, "register", body)
     IN  reqs' = [reqs EXCEPT ![r] =
                    IF RegisterInvalid(body)
                    THEN Send(q, RegisterRequired)
                    ELSE [q EXCEPT !.pc = "insert"]]
  /\ UNCHANGED users

\* The insert completes; the handler responds.
RegisterInsert(r, out, msg) ==
  /\ reqs[r].pc = "insert"
  /\ LET row == NewUser(reqs[r].body)
         result == InsertResult(out, msg, row)
         q == [reqs[r] EXCEPT !.calls =
                 Append(@, Call("insert", out, IF out = "ok" THEN 1 ELSE 0,
                                IF out = "error" THEN msg ELSE ""))]
     IN  /\ users' = IF out = "ok" THEN StoreInsert(users, row) ELSE users
         /\ reqs' = [reqs EXCEPT ![r] =
                       IF RegisterCaught(out)
                       THEN Send(q, InternalError)
                       ELSE Send(q, RegisterReply(result))]

(***************************************************************************)
(* POST /login                                                             *)
(***************************************************************************)

LoginInvalid(body) == Falsy(body.email) \/ Falsy(body.password)

LoginRequired ==
  [status |-> 400, body |-> [error |-> "Email and password are required"]]

\* if (error || !user)
NoUser(result) == result.error # <<>> \/ result.data = <<>>

NoUserReply == [status |-> 400, body |-> [error |-> "Invalid credentials"]]

\* user.password !== password
WrongPassword(user, password) == user.password # password

\* A rejection that names the password.
WrongPasswordReplyNamed == [status |-> 400, body |-> [error |-> "Wrong password"]]

WrongPasswordReply == [status |-> 400, body |-> [error |-> "Invalid credentials"]]

\* A client that rejects on a reported error as well (throwOnError).
LoginCaughtOrReported(out) == out \in {"throw", "error"}

LoginCaught(out) == out = "throw"

\* The reply built from the record with the flag the update set.
LoginReplyUpdated(user) ==
  [status |-> 200,
   body |-> [message |-> "Login successful!",
             user |-> <<[user[1] EXCEPT !.islogin = TRUE]>>]]

LoginReply(user) ==
  [status |-> 200, body |-> [message |-> "Login successful!", user |-> user]]

\* The request arrives; the handler validates and issues the lookup.
Login(r, body) ==
  /\ reqs[r].pc = "idle"
  /\ Arrives(r)
  /\ LET q == Arrived(r, "login", body)
     IN  reqs' = [reqs EXCEPT ![r] =
                    IF LoginInvalid(body)
                    THEN Send(q, LoginRequired)
                    ELSE [q EXCEPT !.pc = "select"]]
  /\ UNCHANGED users

\* The lookup completes; the handler checks the credentials and either
\* responds or issues the update.
LoginSelect(r, out) ==
  /\ reqs[r].pc = "select"
  /\ LET email == reqs[r].body.email
         result == SingleResult(users, email, out)
         q == [reqs[r] EXCEPT
                 !.calls = Append(@, Call("select", out,
                                          Cardinality(Matching(users, email)), "")),
                 !.user = IF LoginCaught(out) THEN <<>> ELSE result.data]
     IN  reqs' = [reqs EXCEPT ![r] =
                    IF LoginCaught(out) THEN Send(q, InternalError)
                    ELSE IF NoUser(result) THEN Send(q, NoUserReply)
                    ELSE IF WrongPassword(result.data[1], reqs[r].body.password)
                         THEN Send(q, WrongPasswordReply)
                    ELSE [q EXCEPT !.pc = "update"]]
  /\ UNCHANGED users

\* The update completes; the handler responds without reading its result.
LoginUpdate(r, out) ==
  /\ reqs[r].kind = "login"
  /\ reqs[r].pc = "update"
  /\ LET email == reqs[r].body.email
         q == [reqs[r] EXCEPT !.calls =
                 Append(@, Call("update", out,
                                IF out = "ok" THEN Cardinality(Matching(users, email))
                                ELSE 0, ""))]
     IN  /\ users' = IF out = "ok" THEN StoreUpdate(users, email, TRUE) ELSE users
         /\ reqs' = [reqs EXCEPT ![r] =
                       IF LoginCaught(out)
                       THEN Send(q, InternalError)
                       ELSE Send(q, LoginReply(reqs[r].user))]

(***************************************************************************)
(* POST /logout                                                            *)
(***************************************************************************)

LogoutInvalid(body) == Falsy(body.email)

LogoutRequired == [status |-> 400, body |-> [error |-> "Email is required"]]

\* A client that rejects on a reported error as well (throwOnError).
LogoutCaughtOrReported(out) == out \in {"throw", "error"}

LogoutCaught(out) == out = "throw"

LogoutReply == [status |-> 200, body |-> [message |-> "Logout successful!"]]

\* The request arrives; the handler validates and issues the update.
Logout(r, body) ==
  /\ reqs[r].pc = "idle"
  /\ Arrives(r)
  /\ LET q == Arrived(r, "logout", body)
     IN  reqs' = [reqs EXCEPT ![r] =
                    IF LogoutInvalid(body)
                    THEN Send(q, LogoutRequired)
                    ELSE [q EXCEPT !.pc = "update"]]
  /\ UNCHANGED users

\* The update completes; the handler responds without reading its result.
LogoutUpdate(r, out) ==
  /\ reqs[r].kind = "logout"
  /\ reqs[r].pc = "update"
  /\ LET email == reqs[r].body.email
         q == [reqs[r] EXCEPT !.calls =
                 Append(@, Call("update", out,
                                IF out = "ok" THEN Cardinality(Matching(users, email))
                                ELSE 0, ""))]
     IN  /\ users' = IF out = "ok" THEN StoreUpdate(users, email, FALSE) ELSE users
         /\ reqs' = [reqs EXCEPT ![r] =
                       IF LogoutCaught(out)
                       THEN Send(q, InternalError)
                       ELSE Send(q, LogoutReply)]

(***************************************************************************)
(* Specification                                                           *)
(***************************************************************************)

\* /logout reads only email from req.body.
LogoutBodies == {b \in Bodies : b.username = Undefined /\ b.password = Undefined}

\* /login reads only email and password from req.body.
LoginBodies == {b \in Bodies : b.username = Undefined}

Next ==
  \/ \E r \in ReqIds, body \in Bodies : Register(r, body)
  \/ \E r \in ReqIds, out \in StoreOutcomes, msg \in StoreMessages :
       RegisterInsert(r, out, msg)
  \/ \E r \in ReqIds, body \in LoginBodies : Login(r, body)
  \/ \E r \in ReqIds, out \in StoreOutcomes : LoginSelect(r, out)
  \/ \E r \in ReqIds, out \in StoreOutcomes : LoginUpdate(r, out)
  \/ \E r \in ReqIds, body \in LogoutBodies : Logout(r, body)
  \/ \E r \in ReqIds, out \in StoreOutcomes : LogoutUpdate(r, out)

Spec == Init /\ [][Next]_vars

(***************************************************************************)
(* Vocabulary of the properties                                            *)
(***************************************************************************)

\* Request r is a `kind` request whose handler has finished.
Done(r, kind) == reqs[r].kind = kind /\ reqs[r].pc = "done"

\* This step is the one in which the handler of request r finishes.
Finishes(r) == reqs[r].pc # "done" /\ reqs'[r].pc = "done"

\* A field the request does not carry, or carries empty.
Missing(v) == v \in {Undefined, ""}

InvalidCredentials == [status |-> 400, body |-> [error |-> "Invalid credentials"]]

\* The lookup of login r was answered by the store and found no row.
UnknownEmail(r) ==
  /\ Done(r, "login")
  /\ Len(reqs[r].calls) = 1
  /\ reqs[r].calls[1].out # "throw"
  /\ reqs[r].calls[1].rows = 0

\* The lookup of login r returned the one row of its email, whose password
\* is not the submitted one.
KnownEmailWrongPassword(r) ==
  /\ Done(r, "login")
  /\ Len(reqs[r].calls) = 1
  /\ reqs[r].calls[1].out = "ok"
  /\ reqs[r].calls[1].rows = 1
  /\ reqs[r].user # <<>>
  /\ reqs[r].user[1].password # reqs[r].body.password

(***************************************************************************)
(* C1: a /login whose lookup returned the one record of its email, whose   *)
(* password is the stored one and whose update call returns (no exception) *)
(* responds 200 with that record, and when its handler finishes every      *)
(* stored record of that email has islogin = TRUE.                         *)
(***************************************************************************)
C1_LoginSetsFlag ==
  [][\A r \in ReqIds :
       ( /\ reqs[r].kind = "login"
         /\ reqs[r].pc = "update"
         /\ Finishes(r)
         /\ reqs'[r].calls[2].out # "throw" )
       => /\ reqs'[r].res =
               <<[status |-> 200,
                  body |-> [message |-> "Login successful!", user |-> reqs[r].user]]>>
          /\ \A i \in Matching(users', reqs[r].body.email) : users'[i].islogin]_vars

(***************************************************************************)
(* C2: a /login for an email no record has and a /login for an existing    *)
(* email with a wrong password get the same response, 400 with             *)
(* {error: "Invalid credentials"}, whatever the store held when each ran.  *)
(***************************************************************************)
C2_SameRejection ==
  \A r1, r2 \in ReqIds :
    (UnknownEmail(r1) /\ KnownEmailWrongPassword(r2))
    => /\ reqs[r1].res = reqs[r2].res
       /\ reqs[r1].res = <<InvalidCredentials>>

C2_Witness ==
  \E r1, r2 \in ReqIds :
    /\ UnknownEmail(r1)
    /\ KnownEmailWrongPassword(r2)
    /\ reqs[r1].body # reqs[r2].body

(***************************************************************************)
(* C3: a /register lacking username, email or password is answered 400     *)
(* with an error body, issues no insert and leaves the table unchanged.    *)
(***************************************************************************)
C3_MissingFieldRejected ==
  [][\A r \in ReqIds :
       ( /\ reqs[r].pc = "idle"
         /\ reqs'[r].kind = "register"
         /\ \/ Missing(reqs'[r].body.username)
            \/ Missing(reqs'[r].body.email)
            \/ Missing(reqs'[r].body.password) )
       => /\ reqs'[r].pc = "done"
          /\ Len(reqs'[r].res) = 1
          /\ reqs'[r].res[1].status = 400
          /\ DOMAIN reqs'[r].res[1].body = {"error"}
          /\ reqs'[r].calls = <<>>
          /\ users' = users]_vars

C3_Witness ==
  \E r \in ReqIds :
    /\ Done(r, "register")
    /\ reqs[r].body.username = "u"
    /\ reqs[r].body.email = "a@x.com"
    /\ reqs[r].body.password = Undefined
    /\ reqs[r].calls = <<>>
    /\ reqs[r].res[1].status = 400

(***************************************************************************)
(* C4: a /register with the three fields whose insert succeeds adds        *)
(* exactly one record, with the submitted username, email and password and *)
(* islogin = FALSE, and its 200 response carries that record.              *)
(***************************************************************************)
C4_RegisterInsertsOne ==
  [][\A r \in ReqIds :
       ( /\ reqs[r].pc = "insert"
         /\ Finishes(r)
         /\ reqs'[r].calls[1].out = "ok" )
       => LET b == reqs[r].body
              row == [username |-> b.username, email |-> b.email,
                      password |-> b.password, islogin |-> FALSE]
          IN  /\ ~Missing(b.username) /\ ~Missing(b.email) /\ ~Missing(b.password)
              /\ Len(users') = Len(users) + 1
              /\ SubSeq(users', 1, Len(users)) = users
              /\ users'[Len(users')] = row
              /\ reqs'[r].res =
                   <<[status |-> 200,
                      body |-> [message |-> "User registered successfully!",
                                user |-> <<row>>]]>>]_vars

C4_Witness ==
  \E r \in ReqIds :
    /\ Done(r, "register")
    /\ reqs[r].res[1].status = 200
    /\ reqs[r].res[1].body.user # <<>>
    /\ \E i \in DOMAIN users : users[i] = reqs[r].res[1].body.user[1]

(***************************************************************************)
(* C5: a /logout with a non-empty email whose store call does not throw    *)
(* responds 200 with the logout message, whether or not a record has the   *)
(* email and whether or not the store carried the update out.              *)
(***************************************************************************)
C5_LogoutAlways200 ==
  \A r \in ReqIds :
    ( /\ Done(r, "logout")
      /\ ~Missing(reqs[r].body.email)
      /\ Len(reqs[r].calls) = 1
      /\ reqs[r].calls[1].out # "throw" )
    => reqs[r].res = <<[status |-> 200, body |-> [message |-> "Logout successful!"]]>>

\* A logout answered 200 for an email no record has, and one whose update
\* the store reported as failed.
C5_Witness ==
  /\ \E r \in ReqIds :
       /\ Done(r, "logout")
       /\ reqs[r].calls # <<>>
       /\ reqs[r].calls[1].out = "ok"
       /\ reqs[r].calls[1].rows = 0
       /\ reqs[r].res[1].status = 200
  /\ \E r \in ReqIds :
       /\ Done(r, "logout")
       /\ reqs[r].calls # <<>>
       /\ reqs[r].calls[1].out = "error"
       /\ reqs[r].res[1].status = 200

(***************************************************************************)
(* C6: two /logout requests for one email, the second arriving after the   *)
(* first was answered and nothing else for that email arriving meanwhile,  *)
(* whose store calls do not throw: both are answered 200, the records of   *)
(* that email have islogin = FALSE after the first and after the second,   *)
(* and the second leaves the table as the first left it.                   *)
(***************************************************************************)
LogoutOk == [status |-> 200, body |-> [message |-> "Logout successful!"]]

\* r1 and r2 are logouts for one email, run one after the other with no
\* other handler in flight, r1 is answered and r2 awaits its update.
SuccessiveLogouts(r1, r2) ==
  /\ r2 = r1 + 1
  /\ Done(r1, "logout")
  /\ reqs[r1].alone
  /\ Len(reqs[r1].calls) = 1
  /\ reqs[r1].calls[1].out # "throw"
  /\ reqs[r2].kind = "logout"
  /\ reqs[r2].alone
  /\ reqs[r2].pc = "update"
  /\ reqs[r2].body.email = reqs[r1].body.email
  /\ \A o \in ReqIds : o > r2 => reqs[o].pc = "idle"

C6_LogoutIdempotent ==
  [][\A r1, r2 \in ReqIds :
       ( /\ SuccessiveLogouts(r1, r2)
         /\ Finishes(r2)
         /\ reqs'[r2].calls[1].out # "throw" )
       => /\ reqs[r1].res = <<LogoutOk>>
          /\ reqs'[r2].res = <<LogoutOk>>
          /\ \A i \in Matching(users, reqs[r1].body.email) : ~users[i].islogin
          /\ \A i \in Matching(users', reqs[r1].body.email) : ~users'[i].islogin
          /\ users' = users]_vars

(***************************************************************************)
(* C7: when the insert of a validated /register reports an error, the      *)
(* only response is 400 with the store's error message as its error.       *)
(***************************************************************************)
C7_InsertErrorIs400 ==
  \A r \in ReqIds :
    ( /\ Done(r, "register")
      /\ Len(reqs[r].calls) = 1
      /\ reqs[r].calls[1].out = "error" )
    => reqs[r].res = <<[status |-> 400, body |-> [error |-> reqs[r].calls[1].msg]]>>

C7_Witness ==
  \E r \in ReqIds :
    /\ Done(r, "register")
    /\ Len(reqs[r].calls) = 1
    /\ reqs[r].calls[1].out = "error"
    /\ reqs[r].calls[1].msg = "duplicate key value violates unique constraint"
    /\ reqs[r].res[1].status = 400

(***************************************************************************)
(* C8, as claimed: any failure of a store call, reported or thrown, is     *)
(* answered with the generic 500, and a 400 answers only a request that    *)
(* failed validation or the credential check.                              *)
(***************************************************************************)
StoreFailed(r) ==
  \E k \in DOMAIN reqs[r].calls : reqs[r].calls[k].out \in {"error", "throw"}

Generic500 == [status |-> 500, body |-> [error |-> "Internal Server Error"]]

C8_StoreFailureIs500 ==
  \A r \in ReqIds :
    (reqs[r].pc = "done" /\ StoreFailed(r)) => reqs[r].res = <<Generic500>>

(***************************************************************************)
(* C8, amended: a store call that throws is caught and answered with the   *)
(* generic 500, and nothing else is answered 500.  A failure the store     *)
(* reports in its result is answered 400 with the store's message by       *)
(* /register, 400 "Invalid credentials" by the lookup of /login, and is    *)
(* ignored (200) for the update of /login and of /logout.                  *)
(***************************************************************************)
LastCall(r) == reqs[r].calls[Len(reqs[r].calls)]

C8_ThrownIs500 ==
  \A r \in ReqIds :
    reqs[r].pc = "done"
    => /\ Len(reqs[r].res) = 1
       /\ reqs[r].res[1].status = 500
            <=> (reqs[r].calls # <<>> /\ LastCall(r).out = "throw")
       /\ reqs[r].res[1].status = 500 => reqs[r].res[1] = Generic500
       /\ (reqs[r].calls # <<>> /\ LastCall(r).out = "error")
            => reqs[r].res[1].status =
                 IF LastCall(r).op = "update" THEN 200 ELSE 400

C8_Witness ==
  /\ \E r \in ReqIds :
       /\ reqs[r].pc = "done"
       /\ reqs[r].calls # <<>>
       /\ LastCall(r).out = "throw"
       /\ reqs[r].res[1].status = 500
  /\ \E r \in ReqIds :
       /\ reqs[r].pc = "done"
       /\ reqs[r].calls # <<>>
       /\ LastCall(r).out = "error"
       /\ reqs[r].res[1].status = 400

(***************************************************************************)
(* C9: a /login that passed the lookup and the password check is answered  *)
(* 200 with the record the lookup read whether the store carried the       *)
(* update out or reported it as failed.                                    *)
(***************************************************************************)
C9_UpdateResultIgnored ==
  \A r \in ReqIds :
    ( /\ Done(r, "login")
      /\ Len(reqs[r].calls) = 2
      /\ reqs[r].calls[2].out \in {"ok", "error"} )
    => /\ reqs[r].user # <<>>
       /\ reqs[r].user[1].email = reqs[r].body.email
       /\ reqs[r].user[1].password = reqs[r].body.password
       /\ reqs[r].res =
            <<[status |-> 200,
               body |-> [message |-> "Login successful!", user |-> reqs[r].user]]>>

\* A login answered 200 although its update was reported as failed and the
\* stored flag is still FALSE.
C9_Witness ==
  \E r \in ReqIds :
    /\ Done(r, "login")
    /\ Len(reqs[r].calls) = 2
    /\ reqs[r].calls[2].out = "error"
    /\ reqs[r].res[1].status = 200
    /\ \E i \in Matching(users, reqs[r].body.email) : ~users[i].islogin

(***************************************************************************)
(* C10: in every step, a record that appears was inserted by a /register   *)
(* and has islogin = FALSE; islogin turns TRUE only in the update of a     *)
(* /login for the record's email whose lookup returned a record with the   *)
(* submitted password; it turns FALSE only in the update of a /logout for  *)
(* the record's email; a /login that ends at validation, lookup or         *)
(* password check, and any request for another email, leave it unchanged.  *)
(***************************************************************************)
\* This step is the update of request r, of the given kind, for this email.
UpdateStep(r, kind, email) ==
  /\ reqs[r].kind = kind
  /\ reqs[r].pc = "update"
  /\ Finishes(r)
  /\ reqs[r].body.email = email

C11_LastWriteWins ==
  [][\A r \in ReqIds :
       ( /\ reqs[r].pc = "update"
         /\ Finishes(r)
         /\ reqs'[r].calls[Len(reqs'[r].calls)].out # "throw" )
       => /\ Len(reqs'[r].res) = 1
          /\ reqs'[r].res[1].status = 200
          /\ reqs'[r].calls[Len(reqs'[r].calls)].out = "ok"
               => \A i \in Matching(users', reqs[r].body.email) :
                    users'[i].islogin = (reqs[r].kind = "login")]_vars

\* The login read islogin = TRUE at its lookup, the logout then cleared the
\* flag of that record, the login's update set it again; both are answered
\* 200 and the flag is TRUE.
C11_Witness ==
  \E r1, r2 \in ReqIds :
    /\ Done(r1, "login")
    /\ Done(r2, "logout")
    /\ reqs[r2].body.email = reqs[r1].body.email
    /\ Len(reqs[r1].calls) = 2
    /\ reqs[r1].calls[2].out = "ok"
    /\ reqs[r1].user # <<>>
    /\ reqs[r1].user[1].islogin
    /\ Len(reqs[r2].calls) = 1
    /\ reqs[r2].calls[1].out = "ok"
    /\ reqs[r2].calls[1].rows = 1
    /\ reqs[r1].res[1].status = 200
    /\ reqs[r2].res[1].status = 200
    /\ \A i \in Matching(users, reqs[r1].body.email) : users[i].islogin
    /\ \A o \in ReqIds \ {r1, r2} : reqs[o].pc = "idle"

(***************************************************************************)
(* C12: in every step the table keeps its records and their username,      *)
(* email and password; it grows, by one record, only in the step of a      *)
(* /register whose insert succeeded; /login and /logout steps change       *)
(* nothing but islogin.                                                    *)
(***************************************************************************)
C12_OnlyRegisterGrows ==
  [][/\ Len(users') >= Len(users)
     /\ \A i \in DOMAIN users :
          /\ users'[i].username = users[i].username
          /\ users'[i].email = users[i].email
          /\ users'[i].password = users[i].password
     /\ Len(users') # Len(users)
          => /\ Len(users') = Len(users) + 1
             /\ \E r \in ReqIds :
                  /\ reqs[r].kind = "register"
                  /\ reqs[r].pc = "insert"
                  /\ Finishes(r)
                  /\ reqs'[r].calls[1].out = "ok"
     /\ \A r \in ReqIds :
          (reqs'[r] # reqs[r] /\ reqs'[r].kind \in {"login", "logout"})
          => Len(users') = Len(users)]_vars

\* A record was added to a table that held one, and a login set a flag.
C12_Witness ==
  /\ Len(users) = 2
  /\ \E r \in ReqIds :
       /\ Done(r, "register")
       /\ reqs[r].calls # <<>>
       /\ reqs[r].calls[1].out = "ok"
  /\ \E r \in ReqIds :
       /\ Done(r, "login")
       /\ Len(reqs[r].calls) = 2
       /\ reqs[r].calls[2].out = "ok"
       /\ ~reqs[r].user[1].islogin

(***************************************************************************)
(* C13: the user of a successful /login response is the record as the      *)
(* lookup read it: the lookup stores the row the table then holds, and     *)
(* the response carries that value, not the row after the islogin update.  *)
(* The witness is a response showing islogin = FALSE while the table       *)
(* holds TRUE.                                                             *)
(***************************************************************************)
C13_ReturnsLookupSnapshot ==
  [][\A r \in ReqIds :
       /\ ( /\ reqs[r].pc = "select"
            /\ reqs'[r].pc = "update" )
          => \E i \in Matching(users, reqs[r].body.email) :
               reqs'[r].user = <<users[i]>>
       /\ ( /\ reqs[r].kind = "login"
            /\ reqs[r].pc = "update"
            /\ Finishes(r)
            /\ reqs'[r].res[1].status = 200 )
          => /\ reqs'[r].res[1].body.user = reqs[r].user
             /\ reqs'[r].user = reqs[r].user]_vars

C13_Witness ==
  \E r \in ReqIds :
    /\ Done(r, "login")
    /\ reqs[r].res[1].status = 200
    /\ ~reqs[r].res[1].body.user[1].islogin
    /\ Len(reqs[r].calls) = 2
    /\ reqs[r].calls[2].out = "ok"
    /\ \A i \in Matching(users, reqs[r].body.email) : users[i].islogin

(***************************************************************************)
(* C14, as claimed: once two or more records share an email, every /login  *)
(* that finishes for that email is answered 400 "Invalid credentials", and *)
(* no record of that email has islogin turned TRUE.                        *)
(***************************************************************************)
\* Two or more records of the table have this email.
Shared(email) == Cardinality(Matching(users, email)) >= 2

C14_DuplicatesLockOut ==
  [][/\ \A r \in ReqIds :
          ( /\ reqs[r].kind = "login"
            /\ Shared(reqs[r].body.email)
            /\ Finishes(r)
            /\ reqs'[r].calls[Len(reqs'[r].calls)].out # "throw" )
          => reqs'[r].res = <<InvalidCredentials>>
     /\ \A i \in DOMAIN users :
          (Shared(users[i].email) /\ ~users[i].islogin) => ~users'[i].islogin]_vars

(***************************************************************************)
(* C14, amended: once two or more records share an email, every /login     *)
(* for that email whose lookup the store answers from then on is answered  *)
(* 400 "Invalid credentials", also with a password one of the records has, *)
(* and changes no flag.  A record of that email has islogin turned TRUE    *)
(* afterwards only by the update of a /login whose lookup ran while the    *)
(* email had a single record; that login is answered 200 unless its        *)
(* update throws.                                                          *)
(***************************************************************************)
C14_LookupAfterDuplicateFails ==
  [][/\ \A r \in ReqIds :
          ( /\ reqs[r].pc = "select"
            /\ Shared(reqs[r].body.email)
            /\ reqs'[r] # reqs[r]
            /\ reqs'[r].calls[1].out # "throw" )
          => /\ reqs'[r].res = <<InvalidCredentials>>
             /\ reqs'[r].pc = "done"
             /\ users' = users
     /\ \A i \in DOMAIN users :
          (Shared(users[i].email) /\ ~users[i].islogin /\ users'[i].islogin)
          => \E r \in ReqIds :
               /\ UpdateStep(r, "login", users[i].email)
               /\ reqs[r].calls[1].rows = 1
               /\ reqs'[r].calls[2].out = "ok"
               /\ reqs'[r].res[1].status = 200]_vars

\* Two records share an email, and a login with the password of one of
\* them, looked up while they did, was answered 400.
C14_Witness ==
  \E r \in ReqIds :
    /\ Done(r, "login")
    /\ Len(reqs[r].calls) = 1
    /\ reqs[r].calls[1].out = "ok"
    /\ reqs[r].calls[1].rows = 2
    /\ \E i \in Matching(users, reqs[r].body.email) :
         users[i].password = reqs[r].body.password
    /\ reqs[r].res = <<InvalidCredentials>>

(***************************************************************************)
(* C15: every request gets exactly one response.  No handler ever has sent *)
(* two; a finished handler has sent one, with status 200, 400 or 500;      *)
(* and, every issued store call completing (FairSpec), a handler that has  *)
(* received its request eventually finishes.                               *)
(***************************************************************************)
\* The store call that the handler of request r awaits completes, with a
\* result, a reported error or an exception; every such call eventually does.
StoreAnswers(r) ==
  \/ \E out \in StoreOutcomes, msg \in StoreMessages : RegisterInsert(r, out, msg)
  \/ \E out \in StoreOutcomes : LoginSelect(r, out)
  \/ \E out \in StoreOutcomes : LoginUpdate(r, out)
  \/ \E out \in StoreOutcomes : LogoutUpdate(r, out)

StoreCompletes == \A r \in ReqIds : WF_vars(StoreAnswers(r))

\* Whether a handler finishes does not depend on which email or username
\* it is sent: the fair behaviours are explored for one email.
FairBodies == {b \in Bodies : b.email \in {Undefined, "a@x.com"}}

FairNext ==
  \/ \E r \in ReqIds, body \in FairBodies : Register(r, body)
  \/ \E r \in ReqIds, body \in FairBodies \cap LoginBodies : Login(r, body)
  \/ \E r \in ReqIds, body \in FairBodies \cap LogoutBodies : Logout(r, body)
  \/ \E r \in ReqIds : StoreAnswers(r)

FairSpec == Init /\ [][FairNext]_vars /\ StoreCompletes

AtMostOneResponse ==
  \A r \in ReqIds :
    /\ Len(reqs[r].res) <= 1
    /\ reqs[r].pc = "done" <=> Len(reqs[r].res) = 1
    /\ \A k \in DOMAIN reqs[r].res : reqs[r].res[k].status \in {200, 400, 500}

C15_ExactlyOneResponse ==
  /\ []AtMostOneResponse
  /\ \A r \in ReqIds :
       (reqs[r].pc \notin {"idle", "done"})
         ~> (reqs[r].pc = "done" /\ Len(reqs[r].res) = 1)

\* Handlers have finished on the 200, the 400 and the 500 path, the last
\* two after store calls.
C15_Witness ==
  /\ \E r \in ReqIds :
       /\ Done(r, "login")
       /\ Len(reqs[r].calls) = 2
       /\ Len(reqs[r].res) = 1
       /\ reqs[r].res[1].status \in {200, 500}
  /\ \E r \in ReqIds :
       /\ reqs[r].pc = "done"
       /\ Len(reqs[r].calls) = 1
       /\ Len(reqs[r].res) = 1
       /\ reqs[r].res[1].status = 400

====
